---- MODULE Spec2Model ----
(***************************************************************************)
(* The IPL sponsorship pipeline: the preparation stage                     *)
(* (src/src/data/process_data.py, class DataProcessor and its main) and    *)
(* the metrics stage (src/src/analysis/main_analysis.py, class IPLAnalyzer *)
(* and its main), with the parts of the dashboard that re-derive the       *)
(* celebrity endorsements and that read the results or call the analyzer   *)
(* (src/src/dashboard/app.py).                                             *)
(*                                                                         *)
(* Representation of pandas values.                                        *)
(*   - a table (DataFrame) is a sequence of rows, a row a function from    *)
(*     column names to cells; a column is absent when its name is not in   *)
(*     the DOMAIN of the rows;                                             *)
(*   - a numeric cell is <<n>> and a missing one (NaN) is <<>>;            *)
(*   - a text cell of a name column is a string, "" when missing;          *)
(*   - a text cell whose characters matter (population figures, the        *)
(*     celebrity field) is the sequence of its characters or tokens,       *)
(*     <<>> when missing;                                                  *)
(*   - a non-integer number is a fraction [num, den] with den > 0, or an   *)
(*     integer count of hundredths where the code rounds to 2 decimals.    *)
(* Floating point is modelled by exact arithmetic: the risk scores of the  *)
(* 15 weight combinations are within 2e-14 of the integers used here and   *)
(* none is within 1 of the threshold 70.                                   *)
(***************************************************************************)
EXTENDS Integers, Sequences, FiniteSets, TLC

VARIABLES
    dataset,         \* the source directory "Dataset": file -> table
    processed_data,  \* DataProcessor.processed_data
    prep_pc,         \* position of process_data.main
    disk,            \* the intermediate directory data/processed: stem -> csv table
    data,            \* IPLAnalyzer.data
    results,         \* IPLAnalyzer.results
    returned,        \* the value the last metric method returned
    pc,              \* position of main_analysis.main
    output,          \* the results directory: file name -> content
    dashboard        \* app.py: its position, and its module-level analyzer

prepVars == <<dataset, processed_data, prep_pc>>
anaVars == <<data, results, returned, pc, output, dashboard>>
vars == <<dataset, processed_data, prep_pc, disk, data, results, returned, pc, output,
         dashboard>>

(***************************************************************************)
(* Bounds of the model.                                                    *)
(***************************************************************************)
MaxPrepRows == 2
MaxContractRows == 3
MaxRankRows == 11
MaxSmallRows == 2
MaxCagrRows == 6
MaxDemoRows == 2
MaxCelebRows == 3
MaxAeiRows == 2
MaxRiskRows == 3
MaxSaveRows == 2
MaxCleanRows == 2

(***************************************************************************)
(* Generic helpers.                                                        *)
(***************************************************************************)
EmptyMap == [n \in {} |-> <<>>]

\* app.py before it is imported: no analyzer yet
NotImported == [pc |-> "idle", data |-> EmptyMap, results |-> EmptyMap, calls |-> << >>]

NaN == <<>>
Num(n) == <<n>>
IsNum(c) == c # <<>>
Val(c) == c[1]

TablesUpTo(rows, n) == UNION {[1..k -> rows] : k \in 0..n}

HasColumn(table, col) == \A i \in DOMAIN table : col \in DOMAIN table[i]

\* dict.get(key, default)
DictGet(d, k, default) == IF k \in DOMAIN d THEN d[k] ELSE default

\* self.processed_data[name] = table
Put(registry, name, table) == (name :> table) @@ registry

(***************************************************************************)
(* Preparation stage: DataProcessor.                                       *)
(***************************************************************************)
SourceFiles == {"advertisers", "revenue", "demography", "contracts"}

\* risk_factors, in tenths
ProductTypeWeights ==
    [pan_masala |-> 8, betting_app |-> 7, alcohol |-> 6, tobacco |-> 9, other |-> 2]

AdFrequencyWeights == [high |-> 8, medium |-> 5, low |-> 2]

\* calculate_risk_score with the weights taken for percentages: the score is
\* scaled by 100 once more
MutRiskScore(row) ==
    LET product_risk == DictGet(ProductTypeWeights, row["product_type"], 2)
        frequency_risk == DictGet(AdFrequencyWeights, row["ad_frequency"], 5)
    IN Num((product_risk * 7 + frequency_risk * 3) * 10)

\* (product_risk * 0.7 + frequency_risk * 0.3) * 100, the risks in tenths
calculate_risk_score(row) ==
    LET product_risk == DictGet(ProductTypeWeights, row["product_type"], 2)
        frequency_risk == DictGet(AdFrequencyWeights, row["ad_frequency"], 5)
    IN Num(product_risk * 7 + frequency_risk * 3)

\* load_data that logs the error and returns True: a file it cannot read
\* counts as a table without rows
MutLoadData ==
    /\ prep_pc = "load_data"
    /\ processed_data' = [f \in SourceFiles |->
                            IF f \in DOMAIN dataset THEN dataset[f] ELSE << >>]
    /\ prep_pc' = "clean_advertisers_data"
    /\ UNCHANGED <<dataset, disk, anaVars>>

\* try: four read_excel calls; except: return False
load_data ==
    /\ prep_pc = "load_data"
    /\ IF SourceFiles \subseteq DOMAIN dataset
       THEN /\ processed_data' = [f \in SourceFiles |-> dataset[f]]
            /\ prep_pc' = "clean_advertisers_data"
       ELSE \* the files are read in the order advertisers, revenue,
            \* demography, contracts: those read before the failure stay
            /\ processed_data' =
                 LET order == <<"advertisers", "revenue", "demography", "contracts">>
                     first == CHOOSE i \in 1..4 :
                                /\ order[i] \notin DOMAIN dataset
                                /\ \A j \in 1..(i-1) : order[j] \in DOMAIN dataset
                 IN [f \in {order[j] : j \in 1..(first-1)} |-> dataset[f]]
            /\ prep_pc' = "failed"
    /\ UNCHANGED <<dataset, disk, anaVars>>

clean_advertisers_data ==
    /\ prep_pc = "clean_advertisers_data"
    /\ processed_data' =
         Put(processed_data, "advertisers_clean", processed_data["advertisers"])
    /\ prep_pc' = "calculate_health_risk_index"
    /\ UNCHANGED <<dataset, disk, anaVars>>

\* df.apply(lambda row: self._calculate_risk_score(row, risk_factors), axis=1);
\* row['product_type'] / row['ad_frequency'] raise KeyError on a table
\* without the column, which main does not catch
calculate_health_risk_index ==
    /\ prep_pc = "calculate_health_risk_index"
    /\ LET df == processed_data["advertisers_clean"]
       IN IF HasColumn(df, "product_type") /\ HasColumn(df, "ad_frequency")
          THEN /\ processed_data' =
                    Put(processed_data, "advertisers_with_risk",
                        [i \in DOMAIN df |->
                           ("health_risk_index" :> calculate_risk_score(df[i])) @@ df[i]])
               /\ prep_pc' = "process_revenue_data"
          ELSE /\ prep_pc' = "crashed"
               /\ UNCHANGED processed_data
    /\ UNCHANGED <<dataset, disk, anaVars>>

\* process_revenue_data that keeps the contracts under their raw name only
MutProcessRevenueData ==
    /\ prep_pc = "process_revenue_data"
    /\ processed_data' =
         Put(processed_data, "revenue_processed", processed_data["revenue"])
    /\ prep_pc' = "save_processed_data"
    /\ UNCHANGED <<dataset, disk, anaVars>>

process_revenue_data ==
    /\ prep_pc = "process_revenue_data"
    /\ processed_data' =
         Put(Put(processed_data, "revenue_processed", processed_data["revenue"]),
             "contracts_processed", processed_data["contracts"])
    /\ prep_pc' = "save_processed_data"
    /\ UNCHANGED <<dataset, disk, anaVars>>

\* for name, df in self.processed_data.items(): df.to_csv(name + ".csv")
save_processed_data ==
    /\ prep_pc = "save_processed_data"
    /\ disk' = [name \in DOMAIN processed_data \cup DOMAIN disk |->
                  IF name \in DOMAIN processed_data
                  THEN processed_data[name] ELSE disk[name]]
    /\ prep_pc' = "done"
    /\ UNCHANGED <<dataset, processed_data, anaVars>>

NextPrep ==
    \/ load_data
    \/ clean_advertisers_data
    \/ calculate_health_risk_index
    \/ process_revenue_data
    \/ save_processed_data

(***************************************************************************)
(* Inputs of the preparation stage.                                        *)
(***************************************************************************)
ProductTypeInputs ==
    {"pan_masala", "betting_app", "alcohol", "tobacco", "other", "snacks"}

AdFrequencyInputs == {"high", "medium", "low", "daily"}

DescriptorInputs == {"High", "Low"}

RawAdvertiserRows ==
    [brand_name : {"A"}, product_type : ProductTypeInputs,
     ad_frequency : AdFrequencyInputs, social_risk_description : DescriptorInputs]

DefaultContracts ==
    << [partner_sponsor_name |-> "X", amount_in_crores_2025 |-> Num(100)],
       [partner_sponsor_name |-> "Y", amount_in_crores_2025 |-> Num(300)] >>

DefaultDemography ==
    << [estimated_user_population |-> <<"1", ",", "0">>] >>

DefaultRevenue == << >>

\* what an earlier run may have left in the intermediate directory
PriorDisk == [demography |-> DefaultDemography]

InitPrep ==
    /\ \E adv \in TablesUpTo(RawAdvertiserRows, MaxPrepRows) \ {<< >>} :
       \E missing \in SUBSET SourceFiles :
         /\ Cardinality(missing) <= 1
         /\ dataset = [f \in SourceFiles \ missing |->
                         CASE f = "advertisers" -> adv
                           [] f = "revenue" -> DefaultRevenue
                           [] f = "demography" -> DefaultDemography
                           [] f = "contracts" -> DefaultContracts]
         /\ disk \in (IF missing = {} THEN {EmptyMap} ELSE {EmptyMap, PriorDisk})
    /\ processed_data = EmptyMap
    /\ prep_pc = "load_data"
    /\ data = EmptyMap
    /\ results = EmptyMap
    /\ returned = EmptyMap
    /\ pc = "idle"
    /\ output = EmptyMap
    /\ dashboard = NotImported

SpecPrep == InitPrep /\ [][NextPrep]_vars

\* the canonical column names of the advertisers table
CanonicalNames == {"brand_name", "product_type", "celebrity_name", "social_risk_description"}

\* a source file may carry each of these columns under a header of its own
SourceHeader ==
    [brand_name |-> "advertiser_brand", product_type |-> "category",
     celebrity_name |-> "brand_ambassadors", social_risk_description |-> "health_social_risk"]

Header(c, renamed) == IF c \in renamed THEN SourceHeader[c] ELSE c

\* the row r of canonical columns as the source file holds it when the
\* columns of renamed stand under their source headers
SourceRow(r, renamed) ==
    [h \in {Header(c, renamed) : c \in DOMAIN r} |->
       r[CHOOSE c \in DOMAIN r : Header(c, renamed) = h]]

CleanInputRows ==
    [brand_name : {"A"}, product_type : {"tobacco", "other"}, celebrity_name : {<<"Alice">>},
     social_risk_description : DescriptorInputs, ad_frequency : {"high"}]

InitClean ==
    /\ \E renamed \in SUBSET CanonicalNames :
       \E adv \in TablesUpTo(CleanInputRows, MaxCleanRows) \ {<< >>} :
          dataset = [f \in SourceFiles |->
                       CASE f = "advertisers" ->
                              [i \in DOMAIN adv |-> SourceRow(adv[i], renamed)]
                         [] f = "revenue" -> DefaultRevenue
                         [] f = "demography" -> DefaultDemography
                         [] f = "contracts" -> DefaultContracts]
    /\ disk = EmptyMap
    /\ processed_data = EmptyMap
    /\ prep_pc = "load_data"
    /\ data = EmptyMap
    /\ results = EmptyMap
    /\ returned = EmptyMap
    /\ pc = "idle"
    /\ output = EmptyMap
    /\ dashboard = NotImported

SpecClean == InitClean /\ [][NextPrep]_vars

(***************************************************************************)
(* Arithmetic helpers.                                                     *)
(***************************************************************************)
Min(a, b) == IF a <= b THEN a ELSE b

Abs(a) == IF a < 0 THEN 0 - a ELSE a

RECURSIVE SeqSum(_)
SeqSum(s) == IF s = << >> THEN 0 ELSE Head(s) + SeqSum(Tail(s))

\* floor of num / den, den > 0
FloorDiv(num, den) == IF num >= 0 THEN num \div den ELSE 0 - ((0 - num + den - 1) \div den)

\* num / den rounded to the nearest integer, ties to the even one (numpy
\* and Python round half to even), den # 0
RoundHalfEven(num, den) ==
    LET n == IF den < 0 THEN 0 - num ELSE num
        d == Abs(den)
        q == FloorDiv(n, d)
        r == n - q * d
    IN IF 2 * r < d THEN q
       ELSE IF 2 * r > d THEN q + 1
       ELSE IF q % 2 = 0 THEN q ELSE q + 1

\* the numeric values of a column, NaN skipped (Series.sum / Series.mean)
ColumnValues(table, col) ==
    LET cells == [i \in DOMAIN table |-> table[i][col]]
        nums == SelectSeq(cells, IsNum)
    IN [i \in DOMAIN nums |-> Val(nums[i])]

\* Series.mean(): NaN for a column without a number
Mean(values) ==
    IF values = << >> THEN [kind |-> "nan", num |-> 0, den |-> 1]
    ELSE [kind |-> "num", num |-> SeqSum(values), den |-> Len(values)]

(***************************************************************************)
(* Metrics stage: IPLAnalyzer.                                             *)
(***************************************************************************)
HighRiskThreshold == 70
TopRisk == 10
TopCagr == 5
TopCelebrities == 5
Years == 5

Digits == ("0" :> 0) @@ ("1" :> 1) @@ ("2" :> 2) @@ ("3" :> 3) @@ ("4" :> 4)
          @@ ("5" :> 5) @@ ("6" :> 6) @@ ("7" :> 7) @@ ("8" :> 8) @@ ("9" :> 9)

IsDigits(chars) == chars # << >> /\ \A i \in DOMAIN chars : chars[i] \in DOMAIN Digits

RECURSIVE ParseDigits(_)
ParseDigits(chars) ==
    IF chars = << >> THEN 0
    ELSE 10 * ParseDigits(SubSeq(chars, 1, Len(chars) - 1)) + Digits[chars[Len(chars)]]

\* pd.read_csv on the population column: the column is numeric when every
\* cell is empty or a number, and then holds numbers and NaN; otherwise it has
\* dtype object and holds the cells' text, NaN for an empty cell
read_csv_population(table) ==
    LET col == "estimated_user_population"
        numeric == \A i \in DOMAIN table : table[i][col] = << >> \/ IsDigits(table[i][col])
        cell(chars) ==
            IF chars = << >> THEN [kind |-> "nan", chars |-> << >>, n |-> 0]
            ELSE IF numeric THEN [kind |-> "num", chars |-> << >>, n |-> ParseDigits(chars)]
            ELSE [kind |-> "str", chars |-> chars, n |-> 0]
    IN [i \in DOMAIN table |-> [table[i] EXCEPT ![col] = cell(@)]]

\* pd.read_csv(file): the cells of the other columns are modelled by the
\* values read_csv parses them to
read_csv(name, table) ==
    IF name = "demography" /\ HasColumn(table, "estimated_user_population")
    THEN read_csv_population(table)
    ELSE table

\* the content of a file pd.read_csv raises on (a file of zero bytes)
Unparsable == << [unparsable |-> NaN] >>

\* try: for file in self.data_dir.glob("*.csv"): self.data[file.stem] = pd.read_csv(file);
\* return True; except: return False, on which main logs "Analysis failed".
\* The glob of a missing directory, like that of an empty one, yields no file
\* and raises nothing.  The glob yields the files in no fixed order: the files
\* it yields before one that read_csv cannot parse are already in self.data
load_processed_data ==
    /\ pc = "load_processed_data"
    /\ IF \A name \in DOMAIN disk : disk[name] # Unparsable
       THEN /\ data' = [name \in DOMAIN disk |-> read_csv(name, disk[name])]
            /\ pc' = "analyze_central_contracts_revenue"
       ELSE /\ \E loaded \in SUBSET {name \in DOMAIN disk : disk[name] # Unparsable} :
                 data' = [name \in loaded |-> read_csv(name, disk[name])]
            /\ pc' = "failed"
    /\ UNCHANGED <<prepVars, disk, dashboard, output, results, returned>>

\* contracts_df.groupby('partner_sponsor_name'): one group per partner name,
\* the rows without a name are dropped
GroupKeys(table, col) == {table[i][col] : i \in DOMAIN table} \ {""}

GroupRows(table, col, key) == SelectSeq(table, LAMBDA row : row[col] = key)

\* Percentage with the share cut to 2 decimals instead of rounded
MutPercentage(part, total) ==
    IF total # 0 THEN [kind |-> "num", v |-> (part * 10000) \div total]
    ELSE [kind |-> "nan", v |-> 0]

\* (revenue_by_source / total_revenue * 100).round(2), in hundredths;
\* a division by zero gives inf, -inf or NaN
Percentage(part, total) ==
    IF total # 0 THEN [kind |-> "num", v |-> RoundHalfEven(part * 10000, total)]
    ELSE IF part > 0 THEN [kind |-> "inf", v |-> 1]
    ELSE IF part < 0 THEN [kind |-> "inf", v |-> 0 - 1]
    ELSE [kind |-> "nan", v |-> 0]

analyze_central_contracts_revenue ==
    /\ pc = "analyze_central_contracts_revenue"
    /\ IF /\ "contracts_processed" \in DOMAIN data
          /\ HasColumn(data["contracts_processed"], "amount_in_crores_2025")
          /\ HasColumn(data["contracts_processed"], "partner_sponsor_name")
       THEN LET contracts_df == data["contracts_processed"]
                amount == "amount_in_crores_2025"
                total_revenue == SeqSum(ColumnValues(contracts_df, amount))
                keys == GroupKeys(contracts_df, "partner_sponsor_name")
                revenue_by_source ==
                    [p \in keys |->
                       SeqSum(ColumnValues(
                           GroupRows(contracts_df, "partner_sponsor_name", p), amount))]
                revenue_percentage ==
                    [p \in keys |-> Percentage(revenue_by_source[p], total_revenue)]
                res == [total_revenue |-> total_revenue,
                        revenue_by_source |-> revenue_by_source,
                        revenue_percentage |-> revenue_percentage]
            IN /\ results' = Put(results, "central_contracts", res)
               /\ returned' = res
               /\ pc' = "analyze_health_risk"
       ELSE /\ pc' = "crashed"
            /\ UNCHANGED <<results, returned>>
    /\ UNCHANGED <<prepVars, disk, dashboard, output, data>>

\* Before with ties given to the later row (keep='last')
MutBefore(df, col, i, j) ==
    LET a == df[i][col]
        b == df[j][col]
    IN IF IsNum(a) /\ IsNum(b)
       THEN Val(a) > Val(b) \/ (Val(a) = Val(b) /\ i > j)
       ELSE IF IsNum(a) # IsNum(b) THEN IsNum(a) ELSE i < j

\* DataFrame.nlargest(n, col), keep='first': row i stands before row j when
\* its value is larger, or equal and i is the earlier row; rows without a
\* value come last
Before(df, col, i, j) ==
    LET a == df[i][col]
        b == df[j][col]
    IN IF IsNum(a) /\ IsNum(b)
       THEN Val(a) > Val(b) \/ (Val(a) = Val(b) /\ i < j)
       ELSE IF IsNum(a) # IsNum(b) THEN IsNum(a) ELSE i < j

\* the labels (row numbers of df) of the rows nlargest returns, in its order
NLargest(n, df, col) ==
    LET place(i) == Cardinality({j \in DOMAIN df : j # i /\ Before(df, col, j, i)}) + 1
    IN [k \in 1..Min(n, Len(df)) |-> CHOOSE i \in DOMAIN df : place(i) = k]

\* a derived DataFrame keeps the index labels of the rows it selects
Take(df, labels) == [k \in DOMAIN labels |-> [label |-> labels[k], row |-> df[labels[k]]]]

\* HighRisk with the threshold itself counted as high risk (>= 70)
MutHighRisk(df) ==
    LET labels == [i \in DOMAIN df |-> i]
    IN SelectSeq(labels, LAMBDA i : /\ IsNum(df[i]["health_risk_index"])
                                    /\ Val(df[i]["health_risk_index"]) >= HighRiskThreshold)

\* df[df['health_risk_index'] > 70]: the labels of the high-risk rows
HighRisk(df) ==
    LET labels == [i \in DOMAIN df |-> i]
    IN SelectSeq(labels, LAMBDA i : /\ IsNum(df[i]["health_risk_index"])
                                    /\ Val(df[i]["health_risk_index"]) > HighRiskThreshold)

HasRiskTable ==
    /\ "advertisers_with_risk" \in DOMAIN data
    /\ HasColumn(data["advertisers_with_risk"], "health_risk_index")

analyze_health_risk ==
    /\ pc = "analyze_health_risk"
    /\ IF HasRiskTable
       THEN LET advertisers_df == data["advertisers_with_risk"]
                top_risk_advertisers ==
                    Take(advertisers_df, NLargest(TopRisk, advertisers_df, "health_risk_index"))
            IN /\ results' = Put(results, "health_risk", top_risk_advertisers)
               /\ returned' = top_risk_advertisers
               /\ pc' = "calculate_cagr"
       ELSE /\ pc' = "crashed"
            /\ UNCHANGED <<results, returned>>
    /\ UNCHANGED <<prepVars, disk, dashboard, output, data>>

\* row.get(column, 1)
RowGet(row, col, default) == IF col \in DOMAIN row THEN row[col] ELSE default

\* (future_value / current_value) ** (1/years), for the ratios that are the
\* years-th power of a fraction p/q with p, q <= 2: the [p, q] with
\* (p/q)^years = future_value / current_value
RECURSIVE Power(_, _)
Power(b, e) == IF e = 0 THEN 1 ELSE b * Power(b, e - 1)

Root(future_value, current_value, years) ==
    CHOOSE r \in [p : 1..2, q : 1..2] :
        /\ Power(r.p, years) * current_value = Power(r.q, years) * future_value
        /\ (r.p = r.q => r.p = 1)

\* the row's entry of cagr_results: round(((fv / cv) ** (1/years) - 1) * 100, 2)
\* in hundredths, or "N/A"; a comparison with NaN is False
CagrOf(row, years) ==
    LET current_value == RowGet(row, "current_revenue", Num(1))
        future_value == RowGet(row, "projected_revenue_2030", Num(1))
    IN IF /\ IsNum(current_value) /\ IsNum(future_value)
          /\ Val(current_value) > 0 /\ Val(future_value) > 0
       THEN LET r == Root(Val(future_value), Val(current_value), years)
            IN [kind |-> "num", v |-> RoundHalfEven((r.p - r.q) * 10000, r.q)]
       ELSE [kind |-> "N/A", v |-> 0]

\* for _, row in top_5_risky.iterrows(): cagr_results[row['brand_name']] = ...
\* a later row of the same brand overwrites the earlier entry
RECURSIVE CagrLoop(_, _, _)
CagrLoop(rows, years, cagr_results) ==
    IF rows = << >> THEN cagr_results
    ELSE CagrLoop(Tail(rows), years,
                  Put(cagr_results, Head(rows).row["brand_name"],
                      CagrOf(Head(rows).row, years)))

calculate_cagr ==
    /\ pc = "calculate_cagr"
    /\ IF HasRiskTable /\ HasColumn(data["advertisers_with_risk"], "brand_name")
       THEN LET advertisers_df == data["advertisers_with_risk"]
                top_5_risky ==
                    Take(advertisers_df, NLargest(TopCagr, advertisers_df, "health_risk_index"))
                cagr_results == CagrLoop(top_5_risky, Years, EmptyMap)
            IN /\ results' = Put(results, "cagr", cagr_results)
               /\ returned' = cagr_results
               /\ pc' = "estimate_population_impact"
       ELSE /\ pc' = "crashed"
            /\ UNCHANGED <<results, returned>>
    /\ UNCHANGED <<prepVars, disk, dashboard, output, data>>

\* Series.str.replace(',', '') on one text cell
StrReplaceComma(chars) == SelectSeq(chars, LAMBDA c : c # ",")

\* pd.to_numeric(..., errors='coerce') on one cell of the stripped column
ToNumeric(cell) ==
    IF cell.kind = "str" /\ IsDigits(StrReplaceComma(cell.chars))
    THEN [kind |-> "num", chars |-> << >>, n |-> ParseDigits(StrReplaceComma(cell.chars))]
    ELSE [kind |-> "nan", chars |-> << >>, n |-> 0]

\* the .str accessor exists on a column of dtype object only: a column read
\* from a file whose cells are all numbers or empty is numeric (an empty
\* table has object columns)
HasStrAccessor(table, col) ==
    table = << >> \/ \E i \in DOMAIN table : table[i][col].kind = "str"

PopulationSum(table, col) ==
    LET nums == SelectSeq(table, LAMBDA row : row[col].kind = "num")
    IN SeqSum([i \in DOMAIN nums |-> nums[i][col].n])

\* what lines 90-98 do with the population column of a demography file:
\* an AttributeError, or total_users * 0.15 in hundredths
PopulationOutcome(file) ==
    LET col == "estimated_user_population"
        loaded == read_csv_population(file)
    IN IF HasStrAccessor(loaded, col)
       THEN [error |-> FALSE,
             total |-> 15 * PopulationSum(
                         [i \in DOMAIN loaded |-> [loaded[i] EXCEPT ![col] = ToNumeric(@)]],
                         col)]
       ELSE [error |-> TRUE, total |-> 0]

\* total_affected_population is kept in hundredths: total_users * 0.15
estimate_population_impact ==
    /\ pc = "estimate_population_impact"
    /\ IF /\ "demography" \in DOMAIN data
          /\ HasRiskTable
          /\ HasColumn(data["demography"], "estimated_user_population")
          /\ HasStrAccessor(data["demography"], "estimated_user_population")
       THEN LET col == "estimated_user_population"
                advertisers_df == data["advertisers_with_risk"]
                high_risk_brands == HighRisk(advertisers_df)
                demography_df ==
                    [i \in DOMAIN data["demography"] |->
                       [data["demography"][i] EXCEPT ![col] = ToNumeric(@)]]
                total_users == PopulationSum(demography_df, col)
                impact_metrics ==
                    [total_affected_population |-> total_users * 15,
                     high_risk_brands_count |-> Len(high_risk_brands),
                     average_risk_score |->
                        Mean([k \in DOMAIN high_risk_brands |->
                                Val(advertisers_df[high_risk_brands[k]]["health_risk_index"])])]
            IN /\ data' = [data EXCEPT !["demography"] = demography_df]
               /\ results' = Put(results, "population_impact", impact_metrics)
               /\ returned' = impact_metrics
               /\ pc' = "analyze_celebrity_endorsements"
       ELSE /\ pc' = "crashed"
            /\ UNCHANGED <<data, results, returned>>
    /\ UNCHANGED <<prepVars, disk, dashboard, output>>

\* the order of Python strings on the tokens of a celebrity field
TokenOrder == <<" ", ",", "Alice", "Bob", "Carol", "multiple">>

TokenRank(t) == CHOOSE i \in DOMAIN TokenOrder : TokenOrder[i] = t

RECURSIVE FieldLess(_, _)
FieldLess(a, b) ==
    IF b = << >> THEN FALSE
    ELSE IF a = << >> THEN TRUE
    ELSE IF Head(a) # Head(b) THEN TokenRank(Head(a)) < TokenRank(Head(b))
    ELSE FieldLess(Tail(a), Tail(b))

\* groupby sorts the group keys
SortedFields(keys) ==
    [k \in 1..Cardinality(keys) |->
       CHOOSE x \in keys : Cardinality({y \in keys : FieldLess(y, x)}) = k - 1]

\* high_risk_brands.groupby('celebrity_name').agg({'brand_name': 'count',
\* 'health_risk_index': 'mean'}): one row per distinct celebrity field, the
\* rows without a field dropped; count counts the rows that have a brand name
GroupByCelebrity(df, labels) ==
    LET fields == {df[labels[k]]["celebrity_name"] : k \in DOMAIN labels} \ {<< >>}
        keys == SortedFields(fields)
        members(key) == SelectSeq(labels, LAMBDA i : df[i]["celebrity_name"] = key)
        named(key) == SelectSeq(members(key), LAMBDA i : df[i]["brand_name"] # "")
    IN [g \in DOMAIN keys |->
          [celebrity_name |-> keys[g],
           brand_name |-> Num(Len(named(keys[g]))),
           health_risk_index |->
              Mean([m \in DOMAIN members(keys[g]) |->
                      Val(df[members(keys[g])[m]]["health_risk_index"])])]]

analyze_celebrity_endorsements ==
    /\ pc = "analyze_celebrity_endorsements"
    /\ IF HasRiskTable
       THEN LET advertisers_df == data["advertisers_with_risk"]
                high_risk_brands == HighRisk(advertisers_df)
            IN IF HasColumn(advertisers_df, "celebrity_name")
               THEN IF HasColumn(advertisers_df, "brand_name")
                    THEN LET grouped == GroupByCelebrity(advertisers_df, high_risk_brands)
                             top == NLargest(TopCelebrities, grouped, "brand_name")
                             celebrity_endorsements ==
                                 [k \in DOMAIN top |->
                                    [label |-> grouped[top[k]]["celebrity_name"],
                                     row |-> [brand_name |-> grouped[top[k]]["brand_name"],
                                              health_risk_index |->
                                                 grouped[top[k]]["health_risk_index"]]]]
                         IN /\ results' = Put(results, "celebrity_endorsements",
                                              celebrity_endorsements)
                            /\ returned' = celebrity_endorsements
                            /\ pc' = "calculate_advertising_ethics_index"
                    ELSE /\ pc' = "crashed"
                         /\ UNCHANGED <<results, returned>>
               ELSE /\ results' = Put(results, "celebrity_endorsements", << >>)
                    /\ returned' = << >>
                    /\ pc' = "calculate_advertising_ethics_index"
       ELSE /\ pc' = "crashed"
            /\ UNCHANGED <<results, returned>>
    /\ UNCHANGED <<prepVars, disk, dashboard, output, data>>

\* fractions [kind, num, den], kind "nan" for NaN
Frac(n, d) == [kind |-> "num", num |-> n, den |-> d]

FracNaN == [kind |-> "nan", num |-> 0, den |-> 1]

FracAdd(a, b) ==
    IF a.kind = "nan" \/ b.kind = "nan" THEN FracNaN
    ELSE Frac(a.num * b.den + b.num * a.den, a.den * b.den)

FracMul(a, b) ==
    IF a.kind = "nan" \/ b.kind = "nan" THEN FracNaN
    ELSE Frac(a.num * b.num, a.den * b.den)

\* round(x, 2), in hundredths
Round2(x) ==
    IF x.kind = "nan" THEN [kind |-> "nan", v |-> 0]
    ELSE [kind |-> "num", v |-> RoundHalfEven(x.num * 100, x.den)]

\* advertisers_df.get('compliance_score', pd.Series([0])).mean(); a table
\* without rows carries no columns here and takes the default
ComplianceMean(df) ==
    IF df # << >> /\ HasColumn(df, "compliance_score")
    THEN Mean(ColumnValues(df, "compliance_score"))
    ELSE Frac(0, 1)

\* WeightedIndex with the compliance term weighted 0.4
MutWeightedIndex(risk_score, diversity_score, compliance_score) ==
    FracAdd(FracAdd(FracMul(risk_score, Frac(4, 10)),
                    FracMul(diversity_score, Frac(3, 10))),
            FracMul(compliance_score, Frac(4, 10)))

\* risk_score * 0.4 + diversity_score * 0.3 + compliance_score * 0.3
WeightedIndex(risk_score, diversity_score, compliance_score) ==
    FracAdd(FracAdd(FracMul(risk_score, Frac(4, 10)),
                    FracMul(diversity_score, Frac(3, 10))),
            FracMul(compliance_score, Frac(3, 10)))

\* the body of calculate_advertising_ethics_index on the analyzer's table
EthicsIndexOf(advertisers_df) ==
    LET risk_score ==
            FracAdd(Frac(100, 1),
                    FracMul(Frac(0 - 1, 1),
                            Mean(ColumnValues(advertisers_df, "health_risk_index"))))
        \* len(unique()): a missing product type is one more value
        diversity_score ==
            Frac(Cardinality({advertisers_df[i]["product_type"] :
                                i \in DOMAIN advertisers_df}) * 10, 1)
        compliance_score == ComplianceMean(advertisers_df)
    IN WeightedIndex(risk_score, diversity_score, compliance_score)

\* self.data['advertisers_with_risk'] and its columns health_risk_index and
\* product_type exist in the registry d of an analyzer
HasEthicsColumns(d) ==
    /\ "advertisers_with_risk" \in DOMAIN d
    /\ HasColumn(d["advertisers_with_risk"], "health_risk_index")
    /\ HasColumn(d["advertisers_with_risk"], "product_type")

calculate_advertising_ethics_index ==
    /\ pc = "calculate_advertising_ethics_index"
    /\ IF HasEthicsColumns(data)
       THEN LET aei == EthicsIndexOf(data["advertisers_with_risk"])
            IN /\ results' = Put(results, "aei", Round2(aei))
               /\ returned' = aei
               /\ pc' = "save_results"
       ELSE /\ pc' = "crashed"
            /\ UNCHANGED <<results, returned>>
    /\ UNCHANGED <<prepVars, disk, dashboard, output, data>>

\* the metrics whose result is a DataFrame (isinstance(result, pd.DataFrame))
DataFrameResults == {"health_risk", "celebrity_endorsements"}

\* DataFrame.to_dict(orient='records'): one mapping per row, from the columns
\* to the cells; the index labels of the rows are not part of it
to_dict_records(df) == [k \in DOMAIN df |-> df[k].row]

\* a column read from a file is int64 when every cell holds a whole number
\* and float64 when a cell is missing; a column without rows is object
IsInt64Column(table, col) ==
    table # << >> /\ \A i \in DOMAIN table : IsNum(table[i][col])

\* json encodes str, int, float (NaN and Infinity included), dict and list;
\* it raises TypeError on a numpy.int64.  The only value of that type in
\* self.results is total_revenue, the Series.sum() of an int64 column: the
\* other numbers are Python int, float, numpy.float64 or come out of
\* to_dict, which boxes them
JsonEncodable ==
    ~IsInt64Column(data["contracts_processed"], "amount_in_crores_2025")

\* json writes the key of a mapping as a string: the float NaN that stands
\* for a missing brand name becomes "NaN"
JsonKey(k) == IF k = "" THEN "NaN" ELSE k

JsonObject(d) ==
    [k \in {JsonKey(x) : x \in DOMAIN d} |-> d[CHOOSE x \in DOMAIN d : JsonKey(x) = k]]

\* json.dump(serializable_results, f): the text of the document, given by
\* the value it parses to
json_dump(serializable_results) ==
    [name \in DOMAIN serializable_results |->
       IF name = "cagr" THEN JsonObject(serializable_results[name])
       ELSE serializable_results[name]]

\* json.load(f) of a document written in full
json_load(file) == file.document

\* the name of the index of a result table: the groupby key for the
\* endorsements, none for the rows nlargest takes from the advertisers
IndexName(name) == IF name = "celebrity_endorsements" THEN "celebrity_name" ELSE ""

\* result.to_csv(path, index=True): the index label is the first cell of
\* each line, under the name of the index
to_csv(name, df) == [k \in DOMAIN df |-> (IndexName(name) :> df[k].label) @@ df[k].row]

\* mkdir; json.dump into analysis_results.json, opened with "w"; one csv per
\* DataFrame.  A TypeError of json.dump leaves the part of the document that
\* was written before it and is caught neither here nor in main
save_results ==
    /\ pc = "save_results"
    /\ LET serializable_results ==
               [name \in DOMAIN results |->
                  IF name \in DataFrameResults THEN to_dict_records(results[name])
                  ELSE results[name]]
           document == "analysis_results.json"
       IN IF JsonEncodable
          THEN /\ output' =
                    [file \in {document} \cup {name \o ".csv" : name \in DataFrameResults}
                             \cup DOMAIN output |->
                       IF file = document
                       THEN [complete |-> TRUE,
                             document |-> json_dump(serializable_results)]
                       ELSE IF file = "health_risk.csv"
                       THEN [complete |-> TRUE,
                             table |-> to_csv("health_risk", results["health_risk"])]
                       ELSE IF file = "celebrity_endorsements.csv"
                       THEN [complete |-> TRUE,
                             table |-> to_csv("celebrity_endorsements",
                                              results["celebrity_endorsements"])]
                       ELSE output[file]]
               /\ pc' = "done"
          ELSE /\ output' = Put(output, document, [complete |-> FALSE, document |-> EmptyMap])
               /\ pc' = "crashed"
    /\ UNCHANGED <<prepVars, disk, dashboard, data, results, returned>>

\* app.py at module level: analyzer = IPLAnalyzer(), an analyzer of its own
\* on which nothing in app.py calls load_processed_data
app_import ==
    /\ dashboard.pc = "import"
    /\ dashboard' = [dashboard EXCEPT !.pc = "imported", !.data = EmptyMap,
                                      !.results = EmptyMap]
    /\ UNCHANGED <<prepVars, disk, data, results, returned, pc, output>>

\* main of app.py: the selected page calls load_results and reads the keys
\* of the document; without the file the page shows an error message, and
\* json.load raises on a document that was not written in full
app_main ==
    /\ dashboard.pc = "imported"
    /\ dashboard' =
         [dashboard EXCEPT !.pc =
            IF "analysis_results.json" \notin DOMAIN output THEN "no results"
            ELSE IF output["analysis_results.json"].complete THEN "page shown"
            ELSE "crashed"]
    /\ UNCHANGED <<prepVars, disk, data, results, returned, pc, output>>

\* create_balanced_scorecard, which main's navigation does not route to: it
\* runs when it is called on the imported module.  It reads
\* results/advertisers_with_risk.csv (read_csv raises without the file, and
\* the first metric raises KeyError without the index column), then calls
\* calculate_advertising_ethics_index on the module-level analyzer
create_balanced_scorecard ==
    /\ dashboard.pc = "imported"
    /\ IF /\ "advertisers_with_risk.csv" \in DOMAIN output
          /\ HasColumn(output["advertisers_with_risk.csv"].table, "health_risk_index")
       THEN LET calls == Append(dashboard.calls, "calculate_advertising_ethics_index")
            IN IF HasEthicsColumns(dashboard.data)
               THEN dashboard' =
                      [dashboard EXCEPT
                         !.pc = "scorecard shown", !.calls = calls,
                         !.results = Put(@, "aei",
                            Round2(EthicsIndexOf(dashboard.data["advertisers_with_risk"])))]
               ELSE dashboard' = [dashboard EXCEPT !.pc = "crashed", !.calls = calls]
       ELSE dashboard' = [dashboard EXCEPT !.pc = "crashed"]
    /\ UNCHANGED <<prepVars, disk, data, results, returned, pc, output>>

NextDashboard ==
    \/ app_import
    \/ app_main
    \/ create_balanced_scorecard

NextAnalysis ==
    \/ load_processed_data
    \/ analyze_central_contracts_revenue
    \/ analyze_health_risk
    \/ calculate_cagr
    \/ estimate_population_impact
    \/ analyze_celebrity_endorsements
    \/ calculate_advertising_ethics_index
    \/ save_results

(***************************************************************************)
(* Inputs of the metrics stage: the files of data/processed.  Each         *)
(* specification varies one table and keeps the others at a default.       *)
(***************************************************************************)
DefaultAdvertisers ==
    << [brand_name |-> "A", product_type |-> "tobacco", celebrity_name |-> <<"Alice">>,
        health_risk_index |-> Num(87)],
       [brand_name |-> "B", product_type |-> "other", celebrity_name |-> <<"Bob">>,
        health_risk_index |-> Num(20)] >>

InitAnalysis(contracts, advertisers, demography) ==
    /\ dataset = EmptyMap
    /\ processed_data = EmptyMap
    /\ prep_pc = "idle"
    /\ disk = [contracts_processed |-> contracts,
               advertisers_with_risk |-> advertisers,
               demography |-> demography]
    /\ data = EmptyMap
    /\ results = EmptyMap
    /\ returned = EmptyMap
    /\ pc = "load_processed_data"
    /\ output = EmptyMap
    /\ dashboard = NotImported

\* contracts: amounts negative, zero and positive, a partner name or none
ContractRows ==
    [partner_sponsor_name : {"X", "Y", ""},
     amount_in_crores_2025 : {Num(0 - 100), Num(0), Num(100), Num(300)}]

InitRevenue ==
    \E contracts \in TablesUpTo(ContractRows, MaxContractRows) :
        InitAnalysis(contracts, DefaultAdvertisers, DefaultDemography)

SpecRevenue == InitRevenue /\ [][NextAnalysis]_vars

\* ranking: one brand per row, two risk levels, up to MaxRankRows rows
BrandNames == <<"B01", "B02", "B03", "B04", "B05", "B06", "B07", "B08", "B09",
                "B10", "B11", "B12", "B13">>

RankedTable(indexes) ==
    [i \in DOMAIN indexes |->
       [brand_name |-> BrandNames[i], product_type |-> "other",
        celebrity_name |-> <<"Alice">>, health_risk_index |-> Num(indexes[i])]]

InitRank ==
    \E indexes \in TablesUpTo({20, 87}, MaxRankRows) :
        InitAnalysis(DefaultContracts, RankedTable(indexes), DefaultDemography)

SpecRank == InitRank /\ [][NextAnalysis]_vars

\* growth rates: the revenue columns absent, one present, or both; figures
\* missing, negative, zero and positive
RevenueCells == {NaN, Num(0 - 1), Num(0), Num(1), Num(32)}

CagrBase == [brand_name : {"A", "B"}, health_risk_index : {Num(20), Num(87)}]

CagrRows(columns) ==
    IF columns = {} THEN CagrBase
    ELSE IF columns = {"current_revenue"}
    THEN {b @@ ("current_revenue" :> c) : b \in CagrBase, c \in RevenueCells}
    ELSE {b @@ ("current_revenue" :> c) @@ ("projected_revenue_2030" :> f) :
            b \in CagrBase, c \in RevenueCells, f \in RevenueCells}

\* tables longer than the 5 rows calculate_cagr selects: one brand per row
LongCagrTable(cells) ==
    [i \in DOMAIN cells |->
       [brand_name |-> BrandNames[i], health_risk_index |-> cells[i][1],
        current_revenue |-> cells[i][2], projected_revenue_2030 |-> Num(32)]]

InitCagr ==
    \/ \E columns \in {{}, {"current_revenue"}, {"current_revenue", "projected_revenue_2030"}} :
       \E advertisers \in TablesUpTo(CagrRows(columns), MaxSmallRows) :
           InitAnalysis(DefaultContracts, advertisers, DefaultDemography)
    \/ \E cells \in [1..MaxCagrRows -> {Num(20), Num(87)} \X {Num(0), Num(1)}] :
           InitAnalysis(DefaultContracts, LongCagrTable(cells), DefaultDemography)

SpecCagr == InitCagr /\ [][NextAnalysis]_vars

\* population figures as written in the file
PopulationTexts ==
    { << >>, <<"7">>, <<"1", "0">>, <<"1", ",", "0">>, <<"1", ",", "0", "0", "0">>,
      <<"1", "0", "0", "0">>, <<"x">> }

InitPopulation ==
    \E demography \in TablesUpTo([estimated_user_population : PopulationTexts], MaxDemoRows) :
        InitAnalysis(DefaultContracts, DefaultAdvertisers, demography)

SpecPopulation == InitPopulation /\ [][NextAnalysis]_vars

\* celebrity fields: one name, two names joined by a comma, the marker
\* "multiple", or none
CelebrityFields ==
    { << >>, <<"Alice">>, <<"Bob">>, <<"Alice", ",", " ", "Bob">>, <<"multiple">> }

CelebrityTable(cells) ==
    [i \in DOMAIN cells |->
       [brand_name |-> BrandNames[i], product_type |-> "other",
        celebrity_name |-> cells[i][1], health_risk_index |-> cells[i][2]]]

InitCelebrity ==
    \E cells \in TablesUpTo(CelebrityFields \X {Num(20), Num(87)}, MaxCelebRows) :
        InitAnalysis(DefaultContracts, CelebrityTable(cells), DefaultDemography)

SpecCelebrity == InitCelebrity /\ [][NextAnalysis]_vars

\* ethics index: the compliance_score column present or absent
AeiBase ==
    [brand_name : {"A"}, product_type : {"tobacco", "other", ""},
     celebrity_name : {<<"Alice">>}, health_risk_index : {Num(20), Num(71), Num(87)}]

AeiRows(withCompliance) ==
    IF withCompliance
    THEN {b @@ ("compliance_score" :> c) : b \in AeiBase, c \in {NaN, Num(50), Num(85)}}
    ELSE AeiBase

InitAei ==
    \E withCompliance \in BOOLEAN :
    \E advertisers \in TablesUpTo(AeiRows(withCompliance), MaxAeiRows) :
        InitAnalysis(DefaultContracts, advertisers, DefaultDemography)

SpecAei == InitAei /\ [][NextAnalysis]_vars

\* high-risk subset: indexes below, at and above the threshold, and tables
\* without any row above it
InitHighRisk ==
    \E indexes \in TablesUpTo({20, 70, 71, 87}, MaxRiskRows) :
        InitAnalysis(DefaultContracts, RankedTable(indexes), DefaultDemography)

SpecHighRisk == InitHighRisk /\ [][NextAnalysis]_vars

\* the intermediate directory: missing or empty, or holding any of the three
\* files the metrics read; a file may be unparsable, lack a column, or hold
\* no row
ContractsFiles ==
    { DefaultContracts, << >>, Unparsable,
      << [partner_sponsor_name |-> "X"], [partner_sponsor_name |-> "Y"] >>,
      << [amount_in_crores_2025 |-> Num(100)] >> }

AdvertisersFiles ==
    { DefaultAdvertisers, << >>, Unparsable,
      << [brand_name |-> "A", product_type |-> "tobacco", celebrity_name |-> <<"Alice">>] >>,
      << [brand_name |-> "A", celebrity_name |-> <<"Alice">>, health_risk_index |-> Num(87)] >> }

DemographyFiles ==
    { DefaultDemography, << >>, Unparsable, << [state |-> "S"] >> }

InitIntermediate ==
    /\ \E present \in SUBSET {"contracts_processed", "advertisers_with_risk", "demography"} :
       \E contracts \in ContractsFiles :
       \E advertisers \in AdvertisersFiles :
       \E demography \in DemographyFiles :
          disk = [name \in present |->
                    CASE name = "contracts_processed" -> contracts
                      [] name = "advertisers_with_risk" -> advertisers
                      [] name = "demography" -> demography]
    /\ dataset = EmptyMap
    /\ processed_data = EmptyMap
    /\ prep_pc = "idle"
    /\ data = EmptyMap
    /\ results = EmptyMap
    /\ returned = EmptyMap
    /\ pc = "load_processed_data"
    /\ output = EmptyMap
    /\ dashboard = NotImported

SpecIntermediate == InitIntermediate /\ [][NextAnalysis]_vars

\* saving: an amount column of whole numbers, one with a missing amount, or
\* a contracts table without rows; advertisers with any celebrity field
SaveContracts ==
    { DefaultContracts, << >>,
      << [partner_sponsor_name |-> "X", amount_in_crores_2025 |-> Num(100)],
         [partner_sponsor_name |-> "Y", amount_in_crores_2025 |-> NaN] >> }

InitSave ==
    \E contracts \in SaveContracts :
    \E cells \in TablesUpTo(CelebrityFields \X {Num(20), Num(87)}, MaxSaveRows) :
        InitAnalysis(contracts, CelebrityTable(cells), DefaultDemography)

SpecSave == InitSave /\ [][NextAnalysis]_vars

\* main of main_analysis.py, started once the preparation stage has ended:
\* analyzer = IPLAnalyzer(), with an empty registry and no result
IPLAnalyzer_init ==
    /\ pc = "idle"
    /\ prep_pc \in {"done", "failed", "crashed"}
    /\ data' = EmptyMap
    /\ results' = EmptyMap
    /\ pc' = "load_processed_data"
    /\ UNCHANGED <<prepVars, disk, dashboard, output, returned>>

\* the two stages one after the other on the same intermediate directory
NextHandOff ==
    \/ NextPrep
    \/ IPLAnalyzer_init
    \/ NextAnalysis

SpecHandOff == InitClean /\ [][NextHandOff]_vars

\* the dashboard next to a metrics run: the results directory empty or
\* holding a copy of advertisers_with_risk.csv, app.py about to be imported
InitDashboard ==
    /\ \E contracts \in SaveContracts :
       \E advertisers \in {DefaultAdvertisers, << >>} :
          disk = [contracts_processed |-> contracts,
                  advertisers_with_risk |-> advertisers,
                  demography |-> DefaultDemography]
    /\ output \in {EmptyMap,
                    [f \in {"advertisers_with_risk.csv"} |->
                       [complete |-> TRUE, table |-> DefaultAdvertisers]]}
    /\ dashboard = [NotImported EXCEPT !.pc = "import"]
    /\ dataset = EmptyMap
    /\ processed_data = EmptyMap
    /\ prep_pc = "idle"
    /\ data = EmptyMap
    /\ results = EmptyMap
    /\ returned = EmptyMap
    /\ pc = "load_processed_data"

SpecDashboard == InitDashboard /\ [][NextAnalysis \/ NextDashboard]_vars

(***************************************************************************)
(* Claims about the preparation stage.                                     *)
(***************************************************************************)
RiskTable == processed_data["advertisers_with_risk"]

RiskComputed == "advertisers_with_risk" \in DOMAIN processed_data

\* C1: every row's health_risk_index is the image of the row's qualitative
\* risk descriptor under one fixed lookup table with values in
\* {100, 90, 50, 20, 10}, 0 for an unknown descriptor; "High" gives 90 and
\* "Low" gives 20, and rows with the same descriptor get the same index.
C1_IndexIsLookupOfDescriptor ==
    RiskComputed =>
      \A i \in DOMAIN RiskTable :
        LET row == RiskTable[i]
            index == Val(row["health_risk_index"])
        IN /\ index \in {100, 90, 50, 20, 10, 0}
           /\ row["social_risk_description"] = "High" => index = 90
           /\ row["social_risk_description"] = "Low" => index = 20
           /\ \A j \in DOMAIN RiskTable :
                RiskTable[j]["social_risk_description"] = row["social_risk_description"]
                  => Val(RiskTable[j]["health_risk_index"]) = index

\* C2: every row of advertisers_with_risk has 0 <= health_risk_index <= 100,
\* whatever the product_type and ad_frequency values, known to the weight
\* tables or not.
C2_IndexWithinRange ==
    RiskComputed =>
      \A i \in DOMAIN RiskTable :
        /\ IsNum(RiskTable[i]["health_risk_index"])
        /\ Val(RiskTable[i]["health_risk_index"]) >= 0
        /\ Val(RiskTable[i]["health_risk_index"]) <= 100

\* a scored table holding a row whose product_type and ad_frequency are both
\* absent from the weight tables, next to a row with known values
C2_Witness ==
    /\ RiskComputed
    /\ \E i, j \in DOMAIN RiskTable :
         /\ RiskTable[i]["product_type"] \notin DOMAIN ProductTypeWeights
         /\ RiskTable[i]["ad_frequency"] \notin DOMAIN AdFrequencyWeights
         /\ RiskTable[j]["product_type"] = "tobacco"
         /\ RiskTable[j]["ad_frequency"] = "high"
         /\ Val(RiskTable[j]["health_risk_index"]) = 87

\* C13: if any of the four source files is absent or unparsable (read_excel
\* raises), load_data reports failure and main performs none of the clean,
\* risk-index and revenue steps and never calls save_processed_data: no file
\* of the intermediate directory is created or modified in that run.
C13_LoadFailureWritesNothing ==
    /\ [](SourceFiles \ DOMAIN dataset # {} =>
            /\ prep_pc \in {"load_data", "failed"}
            /\ DOMAIN processed_data \subseteq SourceFiles)
    /\ [][SourceFiles \ DOMAIN dataset # {} => disk' = disk]_vars

\* a run that failed to load, with the files of an earlier run still there
C13_Witness ==
    /\ SourceFiles \ DOMAIN dataset # {}
    /\ prep_pc = "failed"
    /\ disk = PriorDisk

\* C18: clean_advertisers_data produces an advertisers_clean table in which
\* the source-specific column names are renamed to the canonical names
\* brand_name, product_type, celebrity_name and social_risk_description,
\* every other column is present unchanged under its own name, and the rows
\* and cell values are those of the input.
C18_CleanRenamesToCanonical ==
    "advertisers_clean" \in DOMAIN processed_data =>
      LET raw == dataset["advertisers"]
          clean == processed_data["advertisers_clean"]
      IN /\ Len(clean) = Len(raw)
         /\ \A i \in DOMAIN raw :
               /\ \A c \in CanonicalNames :
                     /\ c \in DOMAIN clean[i]
                     /\ clean[i][c] = raw[i][IF c \in DOMAIN raw[i] THEN c ELSE SourceHeader[c]]
               /\ \A h \in DOMAIN raw[i] \ {SourceHeader[c] : c \in CanonicalNames} :
                     h \in DOMAIN clean[i] /\ clean[i][h] = raw[i][h]

\* what the method does: the table it stores is the table it was given
C18_CleanIsCopy ==
    "advertisers_clean" \in DOMAIN processed_data =>
      processed_data["advertisers_clean"] = dataset["advertisers"]

(***************************************************************************)
(* The dashboard's derivation of the endorsements of one brand             *)
(* (show_celebrity_endorsements): the celebrity field split on commas,     *)
(* each name stripped of blanks; nothing for an empty field or "multiple". *)
(***************************************************************************)
RECURSIVE SplitOnComma(_)
SplitOnComma(field) ==
    IF \A i \in DOMAIN field : field[i] # "," THEN <<field>>
    ELSE LET i == CHOOSE k \in DOMAIN field :
                    field[k] = "," /\ \A j \in 1..(k-1) : field[j] # ","
         IN <<SubSeq(field, 1, i - 1)>> \o SplitOnComma(SubSeq(field, i + 1, Len(field)))

RECURSIVE Strip(_)
Strip(part) ==
    IF part = << >> THEN part
    ELSE IF Head(part) = " " THEN Strip(Tail(part))
    ELSE IF part[Len(part)] = " " THEN Strip(SubSeq(part, 1, Len(part) - 1))
    ELSE part

CelebritiesOf(field) ==
    IF field = << >> \/ field = <<"multiple">> THEN << >>
    ELSE LET parts == SplitOnComma(field)
         IN [k \in DOMAIN parts |-> Strip(parts[k])]

(***************************************************************************)
(* Claims about the metrics stage.                                         *)
(***************************************************************************)
Contracts == data["contracts_processed"]

Advertisers == data["advertisers_with_risk"]

Done(metric) == metric \in DOMAIN results

\* the sum of the amounts of the first n rows whose partner cell is in names
RECURSIVE AmountOver(_, _, _)
AmountOver(table, n, names) ==
    IF n = 0 THEN 0
    ELSE AmountOver(table, n - 1, names)
         + (IF table[n]["partner_sponsor_name"] \in names
            THEN Val(table[n]["amount_in_crores_2025"]) ELSE 0)

PartnerCells == {Contracts[i]["partner_sponsor_name"] : i \in DOMAIN Contracts}

PartnerNames == PartnerCells \ {""}

TotalAmount == AmountOver(Contracts, Len(Contracts), PartnerCells)

AmountOfPartner(p) == AmountOver(Contracts, Len(Contracts), {p})

\* C3: total_revenue is the sum of the amount column, revenue_by_source has
\* exactly one entry per distinct partner name, the sum of the amounts of the
\* rows of that partner, and for a non-zero total revenue_percentage[p] is
\* revenue_by_source[p] / total_revenue * 100 rounded to 2 decimals.
C3_RevenueShares ==
    Done("central_contracts") =>
      LET r == results["central_contracts"]
      IN /\ r.total_revenue = TotalAmount
         /\ DOMAIN r.revenue_by_source = PartnerNames
         /\ DOMAIN r.revenue_percentage = PartnerNames
         /\ \A p \in PartnerNames : r.revenue_by_source[p] = AmountOfPartner(p)
         /\ TotalAmount # 0 =>
              \A p \in PartnerNames :
                /\ r.revenue_percentage[p].kind = "num"
                /\ 2 * Abs(r.revenue_percentage[p].v * TotalAmount
                           - 10000 * AmountOfPartner(p)) <= Abs(TotalAmount)

\* the scenario X: 100, Y: 300 gives total 400 and shares 25.0 and 75.0, and
\* a table whose shares are not whole hundredths (1/3 and 2/3) is analysed
C3_Witness ==
    /\ Done("central_contracts")
    /\ \/ /\ Len(Contracts) = 2
          /\ results["central_contracts"].total_revenue = 400
          /\ PartnerNames = {"X", "Y"}
          /\ results["central_contracts"].revenue_percentage["X"].v = 2500
          /\ results["central_contracts"].revenue_percentage["Y"].v = 7500
       \/ /\ Len(Contracts) = 3
          /\ results["central_contracts"].total_revenue = 300
          /\ PartnerNames = {"X", "Y"}
          /\ results["central_contracts"].revenue_percentage["X"].v = 3333
          /\ results["central_contracts"].revenue_percentage["Y"].v = 6667

RECURSIVE ShareSum(_, _)
ShareSum(shares, names) ==
    IF names = {} THEN 0
    ELSE LET p == CHOOSE q \in names : TRUE
         IN shares[p].v + ShareSum(shares, names \ {p})

\* C4: for a non-empty table with a positive total the percentage shares sum
\* to 100 up to 0.005 per group, also with zero or negative amounts and with
\* rows that have no partner name.
C4_SharesSumTo100 ==
    (Done("central_contracts") /\ Contracts # << >> /\ TotalAmount > 0) =>
      LET shares == results["central_contracts"].revenue_percentage
      IN 2 * Abs(ShareSum(shares, DOMAIN shares) - 10000) <= Cardinality(DOMAIN shares)

\* the same, for the tables in which every row has a partner name
C4_SharesSumTo100WhenNamed ==
    (Done("central_contracts") /\ Contracts # << >> /\ TotalAmount > 0
       /\ \A i \in DOMAIN Contracts : Contracts[i]["partner_sponsor_name"] # "") =>
      LET shares == results["central_contracts"].revenue_percentage
      IN 2 * Abs(ShareSum(shares, DOMAIN shares) - 10000) <= Cardinality(DOMAIN shares)

\* the rows calculate_cagr selects: the 5 of largest index, ties to the
\* earlier row
SelectedForCagr(i) ==
    Cardinality({j \in DOMAIN Advertisers :
                   j # i /\ Before(Advertisers, "health_risk_index", j, i)}) < TopCagr

NoGrowthFigures(row) ==
    \/ "current_revenue" \notin DOMAIN row
    \/ "projected_revenue_2030" \notin DOMAIN row
    \/ ~IsNum(row["current_revenue"])
    \/ ~IsNum(row["projected_revenue_2030"])
    \/ Val(row["current_revenue"]) <= 0
    \/ Val(row["projected_revenue_2030"]) <= 0

\* C5: for every advertiser among the 5 selected, a current or projected
\* figure that is <= 0 or missing, or a revenue column that does not exist,
\* gives the result "N/A" and never a number.
C5_SentinelWithoutFigures ==
    Done("cagr") =>
      \A i \in DOMAIN Advertisers :
        (SelectedForCagr(i) /\ NoGrowthFigures(Advertisers[i])) =>
          results["cagr"][Advertisers[i]["brand_name"]].kind = "N/A"

\* the same, for the tables that have both revenue columns and one row per brand
C5_SentinelWhenColumnsExist ==
    (Done("cagr") /\ HasColumn(Advertisers, "current_revenue")
       /\ HasColumn(Advertisers, "projected_revenue_2030")
       /\ \A i, j \in DOMAIN Advertisers :
            Advertisers[i]["brand_name"] = Advertisers[j]["brand_name"] => i = j) =>
      \A i \in DOMAIN Advertisers :
        (SelectedForCagr(i) /\ NoGrowthFigures(Advertisers[i])) =>
          results["cagr"][Advertisers[i]["brand_name"]].kind = "N/A"

Index(row) == Val(row["health_risk_index"])

\* C6: analyze_health_risk returns min(10, n) rows of the table, each with
\* all its columns unchanged; no row left out has a larger index than a row
\* returned; the rows are in non-increasing order of index; rows of equal
\* index are selected and ordered by their original row order.
C6_TopTenStable ==
    Done("health_risk") =>
      LET top == results["health_risk"]
          chosen == {top[k].label : k \in DOMAIN top}
      IN /\ Len(top) = Min(10, Len(Advertisers))
         /\ Cardinality(chosen) = Len(top)
         /\ \A k \in DOMAIN top :
              /\ top[k].label \in DOMAIN Advertisers
              /\ top[k].row = Advertisers[top[k].label]
         /\ \A k \in DOMAIN top : \A j \in DOMAIN Advertisers \ chosen :
              /\ Index(top[k].row) >= Index(Advertisers[j])
              /\ Index(top[k].row) = Index(Advertisers[j]) => top[k].label < j
         /\ \A k, l \in DOMAIN top :
              k < l => /\ Index(top[k].row) >= Index(top[l].row)
                       /\ Index(top[k].row) = Index(top[l].row)
                            => top[k].label < top[l].label

\* an 11-row table in which the row left out ties with a returned row and
\* a larger index stands after a smaller one
C6_Witness ==
    /\ Done("health_risk")
    /\ Len(Advertisers) = 11
    /\ Len(results["health_risk"]) = 10
    /\ \E j \in DOMAIN Advertisers :
         /\ \A k \in 1..10 : results["health_risk"][k].label # j
         /\ Index(Advertisers[j]) = Index(results["health_risk"][10].row)
         /\ j > results["health_risk"][10].label
    /\ Index(Advertisers[1]) < Index(Advertisers[11])

\* the endorsements the claim expects: one per name of a high-risk row's field
HighRiskRows == {i \in DOMAIN Advertisers : Index(Advertisers[i]) > 70}

EndorsedBy(c) ==
    {i \in HighRiskRows :
       \E k \in DOMAIN CelebritiesOf(Advertisers[i]["celebrity_name"]) :
          CelebritiesOf(Advertisers[i]["celebrity_name"])[k] = c}

Celebrities ==
    UNION {{CelebritiesOf(Advertisers[i]["celebrity_name"])[k] :
              k \in DOMAIN CelebritiesOf(Advertisers[i]["celebrity_name"])} :
           i \in HighRiskRows}

RECURSIVE IndexSum(_)
IndexSum(rows) ==
    IF rows = {} THEN 0
    ELSE LET i == CHOOSE j \in rows : TRUE
         IN Index(Advertisers[i]) + IndexSum(rows \ {i})

\* C7: analyze_celebrity_endorsements counts, over the rows with index > 70,
\* one endorsement per name of the comma-separated celebrity field (names
\* trimmed), none for the field "multiple", and returns at most 5
\* celebrities, each with its brand count and the mean risk of its brands.
C7_EndorsementsPerName ==
    Done("celebrity_endorsements") =>
      LET top == results["celebrity_endorsements"]
      IN /\ Len(top) <= 5
         /\ \A k \in DOMAIN top :
              /\ top[k].label \in Celebrities
              /\ Val(top[k].row.brand_name) = Cardinality(EndorsedBy(top[k].label))
              /\ top[k].row.health_risk_index.num * Cardinality(EndorsedBy(top[k].label))
                   = IndexSum(EndorsedBy(top[k].label)) * top[k].row.health_risk_index.den
         /\ Cardinality(Celebrities) <= 5 =>
              {top[k].label : k \in DOMAIN top} = Celebrities

\* the same, for the tables whose celebrity fields are single names
C7_EndorsementsOfSingleNames ==
    (Done("celebrity_endorsements")
       /\ \A i \in DOMAIN Advertisers :
            Advertisers[i]["celebrity_name"] \in {<< >>, <<"Alice">>, <<"Bob">>}) =>
      LET top == results["celebrity_endorsements"]
      IN /\ Len(top) <= 5
         /\ \A k \in DOMAIN top :
              /\ top[k].label \in Celebrities
              /\ Val(top[k].row.brand_name) = Cardinality(EndorsedBy(top[k].label))
              /\ top[k].row.health_risk_index.num * Cardinality(EndorsedBy(top[k].label))
                   = IndexSum(EndorsedBy(top[k].label)) * top[k].row.health_risk_index.den
         /\ Cardinality(Celebrities) <= 5 =>
              {top[k].label : k \in DOMAIN top} = Celebrities

\* the quantities of the ethics index, from the table
RowCount == Len(Advertisers)

RiskTotal == IndexSum(DOMAIN Advertisers)

ProductTypes == {Advertisers[i]["product_type"] : i \in DOMAIN Advertisers}

HasCompliance == HasColumn(Advertisers, "compliance_score")

Scored == {i \in DOMAIN Advertisers : IsNum(Advertisers[i]["compliance_score"])}

RECURSIVE ComplianceSum(_)
ComplianceSum(rows) ==
    IF rows = {} THEN 0
    ELSE LET i == CHOOSE j \in rows : TRUE
         IN Val(Advertisers[i]["compliance_score"]) + ComplianceSum(rows \ {i})

AeiReturned == pc = "save_results" /\ Advertisers # << >>

\* C8: for a non-empty table, aei = 0.4 * (100 - mean(health_risk_index))
\* + 0.3 * (10 * number of distinct product_type values)
\* + 0.3 * mean(compliance_score), the third term 0 when the column is
\* absent, and the computation completes.  (A missing product type counts
\* as one value; with a compliance column that holds no number the mean,
\* and so the index, is undefined.)
C8_EthicsIndexFormula ==
    /\ pc = "crashed" => Done("aei")
    /\ AeiReturned =>
         IF ~HasCompliance
         THEN /\ returned.kind = "num"
              /\ returned.num * (10 * RowCount)
                   = returned.den * (4 * (100 * RowCount - RiskTotal)
                                     + 30 * Cardinality(ProductTypes) * RowCount)
         ELSE IF Scored # {}
         THEN /\ returned.kind = "num"
              /\ returned.num * (10 * RowCount * Cardinality(Scored))
                   = returned.den
                       * (4 * (100 * RowCount - RiskTotal) * Cardinality(Scored)
                          + 30 * Cardinality(ProductTypes) * RowCount * Cardinality(Scored)
                          + 3 * ComplianceSum(Scored) * RowCount)
         ELSE returned.kind = "nan"

\* the index of two rows with risks 87 and 20 and two product types, without
\* a compliance column: 0.4 * 46.5 + 0.3 * 20 = 24.6; and an index computed
\* with compliance scores
C8_Witness ==
    /\ AeiReturned
    /\ \/ /\ ~HasCompliance
          /\ RowCount = 2 /\ RiskTotal = 107 /\ Cardinality(ProductTypes) = 2
          /\ returned.num * 10 = returned.den * 246
          /\ results["aei"].v = 2460
       \/ /\ HasCompliance
          /\ Cardinality(Scored) = 2 /\ ComplianceSum(Scored) = 135

\* the texts of the population column of the file, commas removed
Stripped(chars) == SelectSeq(chars, LAMBDA c : c # ",")

RECURSIVE ParsedSum(_, _)
ParsedSum(file, n) ==
    IF n = 0 THEN 0
    ELSE ParsedSum(file, n - 1)
         + (IF IsDigits(Stripped(file[n]["estimated_user_population"]))
            THEN ParseDigits(Stripped(file[n]["estimated_user_population"])) ELSE 0)

PopulationAttempted ==
    pc \in {"crashed", "analyze_celebrity_endorsements",
            "calculate_advertising_ethics_index", "save_results", "done"}

\* C9: estimate_population_impact returns total_affected_population = 0.15
\* times the sum of the entries of the population column that parse as
\* numbers once the thousands separators are removed; the other entries
\* contribute nothing and raise no error.
C9_PopulationTotal ==
    PopulationAttempted =>
      /\ Done("population_impact")
      /\ results["population_impact"].total_affected_population
           = 15 * ParsedSum(disk["demography"], Len(disk["demography"]))

\* the same, for the runs in which the method returns
C9_PopulationTotalWhenReturned ==
    Done("population_impact") =>
      results["population_impact"].total_affected_population
        = 15 * ParsedSum(disk["demography"], Len(disk["demography"]))

\* the file with entry i rewritten without its thousands separators
Reformatted(file, i) ==
    [file EXCEPT ![i] = [@ EXCEPT !["estimated_user_population"] = Stripped(@)]]

\* C10: rewriting an entry of the population column without its thousands
\* separators gives the same total_affected_population and no error, also
\* when no entry of the column is left with a separator.
C10_SeparatorInvariance ==
    Done("population_impact") =>
      \A i \in DOMAIN disk["demography"] :
        LET other == PopulationOutcome(Reformatted(disk["demography"], i))
        IN /\ ~other.error
           /\ other.total = results["population_impact"].total_affected_population

\* C11: estimate_population_impact reports as high_risk_brands_count the
\* number of rows whose health_risk_index is strictly greater than 70 (a row
\* at exactly 70 is not counted) and as average_risk_score the mean index of
\* those rows; when no row exceeds 70 the count is 0 and the average is
\* reported as undefined (NaN): it is not 0 and no error is raised.
C11_HighRiskCountAndMean ==
    /\ ~Done("population_impact") =>
          pc \in {"load_processed_data", "analyze_central_contracts_revenue",
                  "analyze_health_risk", "calculate_cagr", "estimate_population_impact"}
    /\ Done("population_impact") =>
          LET impact == results["population_impact"]
          IN /\ impact.high_risk_brands_count = Cardinality(HighRiskRows)
             /\ \A i \in DOMAIN Advertisers :
                   Index(Advertisers[i]) = 70 => i \notin HighRiskRows
             /\ HighRiskRows # {} =>
                   /\ impact.average_risk_score.kind = "num"
                   /\ impact.average_risk_score.den > 0
                   /\ impact.average_risk_score.num * Cardinality(HighRiskRows)
                        = IndexSum(HighRiskRows) * impact.average_risk_score.den
             /\ HighRiskRows = {} =>
                   /\ impact.high_risk_brands_count = 0
                   /\ impact.average_risk_score.kind = "nan"

\* the method has returned for a table with rows at the threshold and none
\* above it
C11_Witness ==
    /\ Done("population_impact")
    /\ \E i \in DOMAIN Advertisers : Index(Advertisers[i]) = 70
    /\ HighRiskRows = {}
    /\ results["population_impact"].high_risk_brands_count = 0
    /\ results["population_impact"].average_risk_score.kind = "nan"

AmountMissing ==
    /\ "contracts_processed" \in DOMAIN data
    /\ ~HasColumn(Contracts, "amount_in_crores_2025")

\* C12: when the amount column is absent from the contracts table,
\* analyze_central_contracts_revenue surfaces this as a named computation
\* error (or a placeholder result) that its caller observes and handles: it
\* never records a total of 0 and no unhandled exception ends the run.
C12_MissingAmountSurfaced ==
    AmountMissing =>
      /\ pc # "crashed"
      /\ Done("central_contracts") => results["central_contracts"].total_revenue # 0

\* C14: if the intermediate directory is missing (or unreadable: its glob
\* yields no file either), load_processed_data returns the failure signal
\* and main treats the run as 'analysis did not run': it goes to its failure
\* branch, computes no metric and does not call save_results.
C14_MissingDirectoryIsLoadFailure ==
    disk = EmptyMap =>
      /\ pc \in {"load_processed_data", "failed"}
      /\ results = EmptyMap
      /\ output = EmptyMap

\* C15: no run of either stage's main ends with an exception leaving main,
\* whatever the input: a missing directory, a missing table, a missing
\* column, an empty table.
C15_NoExceptionLeavesMain ==
    /\ pc # "crashed"
    /\ prep_pc # "crashed"

\* the registry as load_processed_data builds it from the files
LoadedTables == [name \in DOMAIN disk |-> read_csv(name, disk[name])]

\* C19: the metric methods only read the normalized tables: after any of
\* them has run, every table of self.data has the columns, values and value
\* types it had right after load_processed_data, so that a metric method
\* called a second time finds what it found the first time and returns the
\* same result.
C19_MetricsOnlyRead ==
    /\ pc \notin {"load_processed_data", "failed"} => data = LoadedTables
    /\ Done("population_impact") =>
          HasStrAccessor(data["demography"], "estimated_user_population")

\* the tables other than demography are left as loaded
C19_OtherTablesAsLoaded ==
    pc \notin {"load_processed_data", "failed"} =>
      \A name \in DOMAIN data \ {"demography"} : data[name] = LoadedTables[name]

(***************************************************************************)
(* Claims about the outputs, and what the dashboard reads of them          *)
(* (load_results, create_balanced_scorecard and the show_* pages).         *)
(***************************************************************************)
ResultDocument == "analysis_results.json"

ResultFiles == {ResultDocument, "health_risk.csv", "celebrity_endorsements.csv"}

\* results[...] in the pages of the dashboard
DashboardKeys == {"central_contracts", "health_risk", "population_impact"}

\* pd.read_csv("results/...") in create_balanced_scorecard
DashboardFiles == {"advertisers_with_risk.csv"}

\* C16: each stage's output is all-or-nothing: at the end of a run either
\* the stage completed and every output file (all normalized tables; the
\* result document and every tabular result file) is written in full, or it
\* failed and none of its output files was created or changed, also when the
\* failure happens inside the saving step or while the document is serialized.
C16_OutputAllOrNothing ==
    /\ prep_pc = "done" =>
          \A name \in DOMAIN processed_data :
             name \in DOMAIN disk /\ disk[name] = processed_data[name]
    /\ pc = "done" =>
          \A file \in ResultFiles : file \in DOMAIN output /\ output[file].complete
    /\ pc \in {"failed", "crashed"} => output = EmptyMap

\* C17: reloading the document written by save_results reproduces every
\* scalar and tabular metric exactly, including the grouping key (the
\* celebrity name) of each row of celebrity_endorsements and an undefined
\* average_risk_score.
C17_DocumentRoundTrip ==
    pc = "done" =>
      LET reloaded == json_load(output[ResultDocument])
          endorsements == "celebrity_endorsements"
      IN /\ DOMAIN reloaded = DOMAIN results
         /\ \A name \in DOMAIN results \ DataFrameResults : reloaded[name] = results[name]
         /\ \A name \in DataFrameResults :
               /\ Len(reloaded[name]) = Len(results[name])
               /\ \A k \in DOMAIN results[name] :
                  \A col \in DOMAIN results[name][k].row :
                     /\ col \in DOMAIN reloaded[name][k]
                     /\ reloaded[name][k][col] = results[name][k].row[col]
         /\ \A k \in DOMAIN results[endorsements] :
               /\ "celebrity_name" \in DOMAIN reloaded[endorsements][k]
               /\ reloaded[endorsements][k]["celebrity_name"] = results[endorsements][k].label

\* the same without the grouping key: what the document does reproduce
C17_RoundTripOfValues ==
    pc = "done" =>
      LET reloaded == json_load(output[ResultDocument])
      IN /\ DOMAIN reloaded = DOMAIN results
         /\ \A name \in DOMAIN results \ DataFrameResults : reloaded[name] = results[name]
         /\ \A name \in DataFrameResults :
               /\ Len(reloaded[name]) = Len(results[name])
               /\ \A k \in DOMAIN results[name] : reloaded[name][k] = results[name][k].row

\* C20: after a successful metrics run, every top-level key of the result
\* document and every result table file the presentation layer reads (the
\* keys central_contracts, health_risk, population_impact; the file
\* results/advertisers_with_risk.csv) is among the outputs of save_results,
\* and the file of each tabular metric has the same columns as the
\* in-memory table.
C20_PresentationInputsExist ==
    pc = "done" =>
      /\ DashboardKeys \subseteq DOMAIN json_load(output[ResultDocument])
      /\ DashboardFiles \subseteq DOMAIN output
      /\ \A name \in DataFrameResults :
            /\ (name \o ".csv") \in DOMAIN output
            /\ Len(output[name \o ".csv"].table) = Len(results[name])
            /\ \A k \in DOMAIN results[name] :
                  DOMAIN output[name \o ".csv"].table[k] = DOMAIN results[name][k].row

\* the keys alone: the document holds every key the dashboard reads
C20_DocumentKeysExist ==
    pc = "done" => DashboardKeys \subseteq DOMAIN json_load(output[ResultDocument])

(***************************************************************************)
(* Claims about the order of the steps.                                    *)
(***************************************************************************)
MetricNames ==
    {"central_contracts", "health_risk", "cagr", "population_impact",
     "celebrity_endorsements", "aei"}

\* the positions of main_analysis.main, in the order of its calls
StepOrder ==
    <<"idle", "load_processed_data", "analyze_central_contracts_revenue",
      "analyze_health_risk", "calculate_cagr", "estimate_population_impact",
      "analyze_celebrity_endorsements", "calculate_advertising_ethics_index",
      "save_results", "done">>

StepRank(p) ==
    IF \E i \in DOMAIN StepOrder : StepOrder[i] = p
    THEN CHOOSE i \in DOMAIN StepOrder : StepOrder[i] = p
    ELSE Len(StepOrder) + 1

\* every method called on the module-level analyzer of the dashboard other
\* than load_processed_data follows a call of load_processed_data
DashboardCallsAfterLoad ==
    \A k \in DOMAIN dashboard.calls :
       dashboard.calls[k] # "load_processed_data" =>
          \E j \in 1..(k - 1) : dashboard.calls[j] = "load_processed_data"

\* C21: each metric method of an IPLAnalyzer, calculate_advertising_ethics_index
\* called on the dashboard's module-level analyzer included, runs only after
\* load_processed_data has succeeded on that analyzer; no step is invoked
\* twice; save_results runs only after the six metrics have returned.
C21_Ordering ==
    /\ results # EmptyMap => pc \notin {"idle", "load_processed_data", "failed"}
    /\ ResultDocument \in DOMAIN output => MetricNames \subseteq DOMAIN results
    /\ Len(dashboard.calls) <= 1
    /\ DashboardCallsAfterLoad

\* the part of C21 about main_analysis.main alone
C21_PipelineOrdering ==
    /\ [](/\ results # EmptyMap => pc \notin {"idle", "load_processed_data", "failed"}
          /\ ResultDocument \in DOMAIN output => MetricNames \subseteq DOMAIN results)
    /\ [][/\ pc' # pc => StepRank(pc') > StepRank(pc)
          /\ \A m \in DOMAIN results : m \in DOMAIN results' /\ results'[m] = results[m]]_vars

(***************************************************************************)
(* Claims about the hand-off between the stages.                           *)
(***************************************************************************)
\* the registry keys the metric methods look up in self.data
MetricsTables == {"contracts_processed", "advertisers_with_risk", "demography"}

\* C22: after a successful run of the preparation main, the files written by
\* save_processed_data hold a table for every registry key the metrics stage
\* reads (contracts_processed, advertisers_with_risk, demography), under
\* exactly that file stem, so that after a following load_processed_data on
\* the same directory every table lookup of the metric methods succeeds.
C22_HandOffTables ==
    prep_pc = "done" =>
      /\ \A name \in MetricsTables :
            /\ name \in DOMAIN processed_data
            /\ name \in DOMAIN disk
            /\ disk[name] = processed_data[name]
      /\ pc \notin {"idle", "load_processed_data"} =>
            /\ pc # "failed"
            /\ MetricsTables \subseteq DOMAIN data
            /\ \A name \in MetricsTables : Len(data[name]) = Len(disk[name])

\* both stages have run, and the metrics that look up the three tables have
\* returned
C22_Witness ==
    /\ prep_pc = "done"
    /\ MetricsTables \subseteq DOMAIN data
    /\ Done("central_contracts")
    /\ Done("health_risk")
    /\ Done("population_impact")
====
